---- MODULE Spec2Model ----
(***************************************************************************)
(* Verification model of the db package of mpwechat:                      *)
(*   - db/session.py : FlaskAppSession, _dbstate, DBMeta.session, DB,     *)
(*                     atomic                                             *)
(*   - db/model.py   : Model.save / Model.delete                           *)
(*   - db/smartquery.py : smart_query and the SmartQuery chain            *)
(* The store behind a session is modelled as a set of rows; a session     *)
(* holds the changes of its open transaction and a stack of savepoints.   *)
(***************************************************************************)
EXTENDS Integers, Sequences, FiniteSets, TLC

(***************************************************************************)
(* Bounds of the session model.                                            *)
(***************************************************************************)
NumCtx == 2
MaxDepth == 2
MaxRow == 1

Ctx == 1..NumCtx
Rows == 1..MaxRow
StateIds == 1..(NumCtx * MaxDepth)
SessIds == 1..(NumCtx * MaxDepth)

\* the context whose transactions Spec follows; SpecCtx runs all of Ctx
TxCtx == {1}

(***************************************************************************)
(* A change map gives, per row, what a transaction did to it.             *)
(***************************************************************************)
NoChange == [r \in Rows |-> "keep"]

Overlay(base, ch) == [r \in Rows |-> IF ch[r] = "keep" THEN base[r] ELSE ch[r]]

ApplyTo(st, ch) ==
    [r \in Rows |-> IF ch[r] = "put" THEN TRUE ELSE IF ch[r] = "del" THEN FALSE ELSE st[r]]

VARIABLES
    store,      \* the committed rows of the database: Rows -> BOOLEAN
    sessions,   \* the FlaskAppSession objects on the heap, by identity
    states,     \* the _DBStateInContext objects on the heap, by identity
    dbstate,    \* the ContextVar _dbstate: per context, 0 (None) or a state object
    stack,      \* per context, the open with-blocks, innermost last
    exc,        \* per context, whether an exception is propagating
    last        \* the operation that ran last, and what it observed

svars == <<store, sessions, states, dbstate, stack, exc, last>>

(***************************************************************************)
(* sqlalchemy.orm.Session, as far as FlaskAppSession relies on it.        *)
(*   pend : objects add()ed / delete()d and not flushed yet               *)
(*   txn  : changes flushed into the open outer transaction               *)
(*   sps  : the open savepoints, each the txn it would roll back to       *)
(*   ctx, scope : the context and state object the session was made for   *)
(*   durable : some change made through the session has been committed    *)
(***************************************************************************)
NoSession ==
    [live |-> FALSE, pend |-> NoChange, txn |-> NoChange, sps |-> <<>>,
     ctx |-> 0, scope |-> 0, durable |-> FALSE]

NewSession(c, d) == [NoSession EXCEPT !.live = TRUE, !.ctx = c, !.scope = d]

NoState == [live |-> FALSE, session |-> 0]

in_nested_transaction(s) == s.sps # <<>>

SessionAdd(s, r, v) == [s EXCEPT !.pend[r] = v]

SuperFlush(s) == [s EXCEPT !.txn = Overlay(s.txn, s.pend), !.pend = NoChange]

\* Session.execute: autoflush, then the statement runs inside the transaction
SessionExecute(s, r, v) == [SuperFlush(s) EXCEPT !.txn[r] = v]

\* Session.commit (2.0 style): flushes, commits the outermost transaction,
\* which closes every savepoint.  Result: <<session, store>>.
SuperCommit(s, st) ==
    LET f == SuperFlush(s) IN
    << [f EXCEPT !.txn = NoChange, !.sps = <<>>,
                 !.durable = (s.durable \/ f.txn # NoChange)],
       ApplyTo(st, f.txn) >>

\* Session.begin_nested: flushes and opens a savepoint
BeginNested(s) ==
    LET f == SuperFlush(s) IN [f EXCEPT !.sps = Append(f.sps, f.txn)]

\* SessionTransaction.commit of a nested transaction: releases the savepoint
ReleaseNested(s) ==
    LET f == SuperFlush(s) IN [f EXCEPT !.sps = SubSeq(f.sps, 1, Len(f.sps) - 1)]

\* variant: the savepoint is closed and the changes made since are kept
RollbackNestedKeeps(s) ==
    [s EXCEPT !.pend = NoChange, !.sps = SubSeq(s.sps, 1, Len(s.sps) - 1)]

\* SessionTransaction.rollback of a nested transaction: back to the savepoint
RollbackNested(s) ==
    [s EXCEPT !.pend = NoChange, !.txn = s.sps[Len(s.sps)],
              !.sps = SubSeq(s.sps, 1, Len(s.sps) - 1)]

\* what a statement run in the session reads: committed rows plus its own flushed changes
FlushedView(s, st) == ApplyTo(st, s.txn)

(***************************************************************************)
(* FlaskAppSession.commit / rollback.  Result: <<session, store>>.        *)
(***************************************************************************)
\* variant: commit() without the savepoint test of session.py:29
FlaskCommitUnguarded(s, st) == SuperCommit(s, st)

FlaskCommit(s, st) ==
    IF in_nested_transaction(s)
    THEN << SuperFlush(s), st >>
    ELSE SuperCommit(s, st)

\* variant: rollback() without the savepoint test of session.py:38
FlaskRollbackUnguarded(s, st) == SuperCommit(s, st)

FlaskRollback(s, st) ==
    IF in_nested_transaction(s)
    THEN << s, st >>
    ELSE SuperCommit(s, st)      \* session.py:41 calls super().commit()

(***************************************************************************)
(* _dbstate, a ContextVar: every context has a slot of its own.           *)
(***************************************************************************)
\* variant: one slot shared by every context (a module-level global)
DbGetShared(c) == dbstate[CHOOSE m \in Ctx : \A k \in Ctx : m <= k]

DbGet(c) == dbstate[c]

DbSet(c, v) == [dbstate EXCEPT ![c] = v]

\* variant: __exit__ that leaves the binding in place
DbResetSkipped(c, token) == dbstate

DbReset(c, token) == [dbstate EXCEPT ![c] = token]

(***************************************************************************)
(* Object identity: a new object gets an identity no live object has (the *)
(* least free one of the creating context's pool); an object nothing      *)
(* refers to any more is gone.                                             *)
(***************************************************************************)
Pool(c) == ((c - 1) * MaxDepth + 1)..(c * MaxDepth)

FreeStates(c) == {d \in Pool(c) : ~states[d].live}

FreeSessions(c) == {s \in Pool(c) : ~sessions[s].live}

FreshState(c) == CHOOSE d \in FreeStates(c) : \A e \in FreeStates(c) : d <= e

FreshSession(c) == CHOOSE s \in FreeSessions(c) : \A e \in FreeSessions(c) : s <= e

CollectStates(sts, dbs, stk) ==
    LET reach == {dbs[c] : c \in Ctx} \cup
                 UNION {{stk[c][i].token : i \in 1..Len(stk[c])} : c \in Ctx}
    IN [d \in StateIds |-> IF d \in reach THEN sts[d] ELSE NoState]

CollectSessions(ses, sts, stk) ==
    LET reach == {sts[d].session : d \in StateIds} \cup
                 UNION {{stk[c][i].sess : i \in 1..Len(stk[c])} : c \in Ctx}
    IN [s \in SessIds |-> IF s \in reach THEN ses[s] ELSE NoSession]

(***************************************************************************)
(* DBMeta.session: the session of the bound state, created on first use.  *)
(*   SessionId(c)  the session the property returns (0: it raises)        *)
(*   SessionsAfter(c), StatesAfter(c)  the heap after the property ran    *)
(***************************************************************************)
HasState(c) == DbGet(c) # 0

\* variant: the property without the  session is None  test of session.py:80
NeedsSessionAlways(c) == HasState(c)

NeedsSession(c) == HasState(c) /\ states[DbGet(c)].session = 0

SessionId(c) ==
    IF ~HasState(c) THEN 0
    ELSE IF NeedsSession(c) THEN FreshSession(c)
    ELSE states[DbGet(c)].session

SessionsAfter(c) ==
    IF NeedsSession(c)
    THEN [sessions EXCEPT ![FreshSession(c)] = NewSession(c, DbGet(c))]
    ELSE sessions

StatesAfter(c) ==
    IF NeedsSession(c) THEN [states EXCEPT ![DbGet(c)].session = FreshSession(c)]
    ELSE states

\* DBMeta.session can run: it raises, returns the session, or can make a new one
CanAccess(c) == NeedsSession(c) => FreeSessions(c) # {}

(***************************************************************************)
(* The with-blocks of a context.                                           *)
(***************************************************************************)
DbFrame(token, d) == [kind |-> "db", token |-> token, st |-> d, sess |-> 0]

NestedFrame(s) == [kind |-> "nested", token |-> 0, st |-> 0, sess |-> s]

Top(c) == stack[c][Len(stack[c])]

Pop(c) == [stack EXCEPT ![c] = SubSeq(stack[c], 1, Len(stack[c]) - 1)]

Push(c, f) == [stack EXCEPT ![c] = Append(stack[c], f)]

DbDepth(c) == Cardinality({i \in 1..Len(stack[c]) : stack[c][i].kind = "db"})

\* the state object made by the innermost DB() block that is still open (0: none)
RECURSIVE InnermostFrom(_, _)
InnermostFrom(c, i) ==
    IF i = 0 THEN 0
    ELSE IF stack[c][i].kind = "db" THEN stack[c][i].st
    ELSE InnermostFrom(c, i - 1)

Innermost(c) == InnermostFrom(c, Len(stack[c]))

\* what the last operation was: its name, its context, the session it used
\* (0: none), whether a savepoint was open when it began, whether it raised or
\* ran with an exception propagating, and (at a scope's exit) whether a change
\* made through the scope's session is committed
Observed(op, c, s, nested, raised, durable) ==
    [op |-> op, ctx |-> c, sess |-> s, nested |-> nested, raised |-> raised,
     durable |-> durable]

(***************************************************************************)
(* Initial state: the process has started, no scope was entered.          *)
(***************************************************************************)
InitSession ==
    /\ store = [r \in Rows |-> FALSE]
    /\ sessions = [s \in SessIds |-> NoSession]
    /\ states = [d \in StateIds |-> NoState]
    /\ dbstate = [c \in Ctx |-> 0]
    /\ stack = [c \in Ctx |-> <<>>]
    /\ exc = [c \in Ctx |-> FALSE]
    /\ last = Observed("init", 0, 0, FALSE, FALSE, FALSE)

(***************************************************************************)
(* DB.__enter__                                                            *)
(***************************************************************************)
DBEnter(c) ==
    /\ ~exc[c]
    /\ Len(stack[c]) < MaxDepth
    /\ FreeStates(c) # {}
    /\ states' = [states EXCEPT ![FreshState(c)] = [live |-> TRUE, session |-> 0]]
    /\ dbstate' = DbSet(c, FreshState(c))
    /\ stack' = Push(c, DbFrame(DbGet(c), FreshState(c)))
    /\ last' = Observed("enter", c, 0, FALSE, FALSE, FALSE)
    /\ UNCHANGED <<store, sessions, exc>>

(***************************************************************************)
(* DB.__exit__                                                             *)
(***************************************************************************)
DBExit(c) ==
    /\ stack[c] # <<>>
    /\ Top(c).kind = "db"
    /\ LET d == DbGet(c)
           sid == states[d].session
           fin == IF sid = 0 THEN << sessions, store >>
                  ELSE LET r == IF exc[c] THEN FlaskRollback(sessions[sid], store)
                                 ELSE FlaskCommit(sessions[sid], store)
                       IN << [sessions EXCEPT ![sid] = r[1]], r[2] >>
       IN /\ store' = fin[2]
          /\ dbstate' = DbReset(c, Top(c).token)
          /\ stack' = Pop(c)
          /\ states' = CollectStates(states, dbstate', stack')
          /\ sessions' = CollectSessions(fin[1], states', stack')
          /\ last' = Observed("exit", c, sid, FALSE, exc[c],
                              sid # 0 /\ fin[1][sid].durable)
    /\ UNCHANGED exc

\* DB.__exit__ when the commit or rollback of line 117 or 119 raises: the
\* exception leaves __exit__ there, and line 121 is not reached
DBExitFails(c) ==
    /\ stack[c] # <<>>
    /\ Top(c).kind = "db"
    /\ states[DbGet(c)].session # 0
    /\ stack' = Pop(c)
    /\ exc' = [exc EXCEPT ![c] = TRUE]
    /\ states' = CollectStates(states, dbstate, stack')
    /\ sessions' = CollectSessions(sessions, states', stack')
    /\ last' = Observed("exit", c, states[DbGet(c)].session, FALSE, TRUE, FALSE)
    /\ UNCHANGED <<store, dbstate>>

(***************************************************************************)
(* An evaluation of DB.session by the running code.                       *)
(***************************************************************************)
SessionAccess(c) ==
    /\ ~exc[c]
    /\ CanAccess(c)
    /\ sessions' = SessionsAfter(c)
    /\ states' = StatesAfter(c)
    /\ exc' = [exc EXCEPT ![c] = ~HasState(c)]
    /\ last' = Observed("access", c, SessionId(c), FALSE, ~HasState(c), FALSE)
    /\ UNCHANGED <<store, dbstate, stack>>

\* the session and store after  DB.session.<method>(...)  has run, where result
\* is what the method makes of the session and the store; the access raises
\* when no state is bound
OnSession(c, op, result, nested) ==
    /\ ~exc[c]
    /\ CanAccess(c)
    /\ sessions' = IF HasState(c)
                   THEN [SessionsAfter(c) EXCEPT ![SessionId(c)] = result[1]]
                   ELSE sessions
    /\ store' = IF HasState(c) THEN result[2] ELSE store
    /\ states' = StatesAfter(c)
    /\ exc' = [exc EXCEPT ![c] = ~HasState(c)]
    /\ last' = Observed(op, c, SessionId(c), nested, ~HasState(c), FALSE)

Current(c) == SessionsAfter(c)[SessionId(c)]

InNested(c) == HasState(c) /\ in_nested_transaction(Current(c))

(***************************************************************************)
(* Model.save / Model.delete: add (delete) the object, then commit.       *)
(***************************************************************************)
ModelSave(c, r) ==
    /\ OnSession(c, "save",
                 IF HasState(c) THEN FlaskCommit(SessionAdd(Current(c), r, "put"), store)
                 ELSE << NoSession, store >>,
                 InNested(c))
    /\ UNCHANGED <<dbstate, stack>>

ModelDelete(c, r) ==
    /\ OnSession(c, "delete",
                 IF HasState(c) THEN FlaskCommit(SessionAdd(Current(c), r, "del"), store)
                 ELSE << NoSession, store >>,
                 InNested(c))
    /\ UNCHANGED <<dbstate, stack>>

(***************************************************************************)
(* DB.session.execute / commit / rollback called by the block itself,     *)
(* as homepage/commands/init_project.py does.                              *)
(***************************************************************************)
Execute(c, r, v) ==
    /\ OnSession(c, "execute",
                 IF HasState(c) THEN << SessionExecute(Current(c), r, v), store >>
                 ELSE << NoSession, store >>,
                 InNested(c))
    /\ UNCHANGED <<dbstate, stack>>

Commit(c) ==
    /\ OnSession(c, "commit",
                 IF HasState(c) THEN FlaskCommit(Current(c), store)
                 ELSE << NoSession, store >>,
                 InNested(c))
    /\ UNCHANGED <<dbstate, stack>>

Rollback(c) ==
    /\ OnSession(c, "rollback",
                 IF HasState(c) THEN FlaskRollback(Current(c), store)
                 ELSE << NoSession, store >>,
                 InNested(c))
    /\ UNCHANGED <<dbstate, stack>>

(***************************************************************************)
(* atomic: with DB.session.begin_nested(): func()                          *)
(***************************************************************************)
AtomicEnter(c) ==
    /\ Len(stack[c]) < MaxDepth
    /\ OnSession(c, "begin_nested",
                 IF HasState(c) THEN << BeginNested(Current(c)), store >>
                 ELSE << NoSession, store >>,
                 InNested(c))
    /\ stack' = IF HasState(c) THEN Push(c, NestedFrame(SessionId(c))) ELSE stack
    /\ UNCHANGED dbstate

AtomicExit(c) ==
    /\ stack[c] # <<>>
    /\ Top(c).kind = "nested"
    /\ LET sid == Top(c).sess IN
       /\ sessions' = [sessions EXCEPT ![sid] =
                          IF exc[c] THEN RollbackNested(sessions[sid])
                          ELSE ReleaseNested(sessions[sid])]
       /\ last' = Observed("end_nested", c, sid, TRUE, exc[c], FALSE)
    /\ stack' = Pop(c)
    /\ UNCHANGED <<store, states, dbstate, exc>>

(***************************************************************************)
(* The code of a block raises; a try/except around the current position   *)
(* handles the exception (init_project.py:65).                             *)
(***************************************************************************)
Raise(c) ==
    /\ ~exc[c]
    /\ stack[c] # <<>>
    /\ exc' = [exc EXCEPT ![c] = TRUE]
    /\ last' = Observed("raise", c, 0, FALSE, TRUE, FALSE)
    /\ UNCHANGED <<store, sessions, states, dbstate, stack>>

Catch(c) ==
    /\ exc[c]
    /\ exc' = [exc EXCEPT ![c] = FALSE]
    /\ last' = Observed("catch", c, 0, FALSE, FALSE, FALSE)
    /\ UNCHANGED <<store, sessions, states, dbstate, stack>>

(***************************************************************************)
(***************************************************************************)
(* db/smartquery.py.  Keys are strings, modelled as sequences of          *)
(* characters so that splitting and joining them is computed.             *)
(***************************************************************************)
(***************************************************************************)
RELATION_SPLITTER == <<"_", "_", "_">>
OPERATOR_SPLITTER == <<"_", "_">>
DESC_PREFIX == <<"-">>
JOINED == "joined"
SUBQUERY == "subquery"

\* bounds of the query model: keys given to one composed query, calls of one chain
MaxAttrs == 2
MaxCalls == 2

SetMin(S) == CHOOSE x \in S : \A y \in S : x <= y

SetMax(S) == CHOOSE x \in S : \A y \in S : x >= y

\* the positions at which sep occurs in s
Occurs(s, sep) ==
    {i \in 1..Len(s) : i + Len(sep) - 1 <= Len(s) /\ SubSeq(s, i, i + Len(sep) - 1) = sep}

\* sep in s
StrContains(s, sep) == Occurs(s, sep) # {}

\* s.startswith(p)
StartsWith(s, p) == Len(p) <= Len(s) /\ SubSeq(s, 1, Len(p)) = p

\* s.split(sep, 1), for s that contains sep: cut at the leftmost occurrence
Split1(s, sep) ==
    LET i == SetMin(Occurs(s, sep))
    IN << SubSeq(s, 1, i - 1), SubSeq(s, i + Len(sep), Len(s)) >>

\* s.rsplit(sep, 1), for s that contains sep: cut at the rightmost occurrence
RSplit1(s, sep) ==
    LET i == SetMax(Occurs(s, sep))
    IN << SubSeq(s, 1, i - 1), SubSeq(s, i + Len(sep), Len(s)) >>

\* s.lstrip(ch): every leading ch is dropped
LStrip(s, ch) ==
    LET k == SetMin({i \in 1..Len(s) : <<s[i]>> # ch} \cup {Len(s) + 1})
    IN SubSeq(s, k, Len(s))

\* s.replace(sep, by)
RECURSIVE StrReplace(_, _, _)
StrReplace(s, sep, by) ==
    IF s = <<>> THEN <<>>
    ELSE IF StartsWith(s, sep)
         THEN by \o StrReplace(SubSeq(s, Len(sep) + 1, Len(s)), sep, by)
         ELSE <<s[1]>> \o StrReplace(Tail(s), sep, by)

(***************************************************************************)
(* The declared entities the queries run over: a root entity R with       *)
(* relationships a (to A), b (to B) and the view-only v (to B); A has b    *)
(* (to B), B has a (to A).  Every entity has the columns x and y, the      *)
(* hybrid property h and the hybrid method m.                              *)
(***************************************************************************)
Ra == <<"a">>
Rb == <<"b">>
Rv == <<"v">>
Cx == <<"x">>
Cy == <<"y">>
Hp == <<"h">>
Hm == <<"m">>
OpGt == <<"g", "t">>
OpExact == <<"e", "x", "a", "c", "t">>
OpEq == <<"e", "q">>

RootCls == "R"

\* InspectionMixin._relations
Relations(cls) ==
    IF cls = "R" THEN {Ra, Rb, Rv} ELSE IF cls = "A" THEN {Rb} ELSE {Ra}

\* InspectionMixin._settable_relations: the relations that are not view-only
SettableRelations(cls) == Relations(cls) \ {Rv}

\* relationship.property.mapper.class_
RelationTarget(cls, name) == IF name = Ra THEN "A" ELSE "B"

\* InspectionMixin._columns, _hybrid_properties, _hybrid_methods
Columns(cls) == {Cx, Cy}

HybridProperties(cls) == {Hp}

HybridMethods(cls) == {Hm}

OpBad == <<"b", "a", "d">>

UnknownName == <<"z">>

\* the operators, were any suffix taken for one
OperatorNamesOpen == {OpGt, <<"l", "t">>, OpExact, OpBad}

\* SmartQueryMixin._operators (the names the keys of this model use)
OperatorNames == {OpGt, <<"l", "t">>, OpExact}

\* the filterable attributes, were only the settable relations among them
FilterableAttributesSettable(cls) ==
    SettableRelations(cls) \cup Columns(cls) \cup HybridProperties(cls) \cup HybridMethods(cls)

FilterableAttributes(cls) ==
    Relations(cls) \cup Columns(cls) \cup HybridProperties(cls) \cup HybridMethods(cls)

SortableAttributes(cls) == Columns(cls) \cup HybridProperties(cls)

(***************************************************************************)
(* Errors, dicts in insertion order, the Query value.                      *)
(***************************************************************************)
\* An exception: its class, which message it carries, the key or path and
\* the offending name the message quotes, and the message of the exception it
\* wraps ("" when it wraps none).
NoError == [kind |-> "none", msg |-> "", key |-> <<>>, what |-> <<>>, cause |-> ""]

Raised(kind, msg, key, what) ==
    [kind |-> kind, msg |-> msg, key |-> key, what |-> what, cause |-> ""]

\* raise KeyError("Incorrect ... path `{}`: {}".format(attr, e))
Wrapped(msg, key, e) ==
    [kind |-> "KeyError", msg |-> msg, key |-> key, what |-> e.what, cause |-> e.msg]

\* index of key in an ordered dict (a sequence of items with a path), 0: absent
DictIndex(d, key) ==
    LET hits == {i \in 1..Len(d) : d[i].path = key}
    IN IF hits = {} THEN 0 ELSE SetMin(hits)

\* d[key] = item
DictSet(d, item) ==
    IF DictIndex(d, item.path) = 0 THEN Append(d, item)
    ELSE [d EXCEPT ![DictIndex(d, item.path)] = item]

EmptyQuery == [joins |-> <<>>, preds |-> <<>>, orders |-> <<>>, opts |-> <<>>]

(***************************************************************************)
(* _parse_path_and_make_aliases.  acc: the aliases dict, the identity the *)
(* next aliased() object gets, and the error raised, if any.               *)
(***************************************************************************)
RECURSIVE GroupRelations(_, _, _)
GroupRelations(attrs, i, relations) ==
    IF i > Len(attrs) THEN relations
    ELSE IF StrContains(attrs[i], RELATION_SPLITTER)
         THEN LET parts == Split1(attrs[i], RELATION_SPLITTER)
                  at == DictIndex(relations, parts[1])
              IN GroupRelations(attrs, i + 1,
                     IF at # 0
                     THEN [relations EXCEPT ![at].nested = Append(@, parts[2])]
                     ELSE Append(relations, [path |-> parts[1], nested |-> <<parts[2]>>]))
         ELSE GroupRelations(attrs, i + 1, relations)

\* what the error would name were only the relationship given
PathErrorBare(path, relation_name) ==
    Raised("KeyError", "incorrect path", relation_name, relation_name)

\* KeyError("Incorrect path `{}`: {} doesnt have `{}` relationship")
PathError(path, relation_name) ==
    Raised("KeyError", "incorrect path", path, relation_name)

RECURSIVE parse_path_and_make_aliases(_, _, _, _)
RECURSIVE MakeAliases(_, _, _, _, _)
MakeAliases(cls, entity_path, relations, i, acc) ==
    IF acc.err.kind # "none" \/ i > Len(relations) THEN acc
    ELSE LET relation_name == relations[i].path
             path == IF entity_path # <<>>
                     THEN entity_path \o RELATION_SPLITTER \o relation_name
                     ELSE relation_name
         IN IF relation_name \notin Relations(cls)
            THEN [acc EXCEPT !.err = PathError(path, relation_name)]
            ELSE LET target == RelationTarget(cls, relation_name)
                     entry == [path |-> path, alias |-> acc.next, cls |-> target,
                               rel |-> <<cls, relation_name>>]
                     made == [acc EXCEPT !.aliases = DictSet(acc.aliases, entry),
                                         !.next = acc.next + 1]
                 IN MakeAliases(cls, entity_path, relations, i + 1,
                        parse_path_and_make_aliases(target, path, relations[i].nested, made))

parse_path_and_make_aliases(cls, entity_path, attrs, acc) ==
    MakeAliases(cls, entity_path, GroupRelations(attrs, 1, <<>>), 1, acc)

(***************************************************************************)
(* SmartQueryMixin._filter_expr and _order_expr for one key.              *)
(* Result: [err, expr].                                                     *)
(***************************************************************************)
\* op(column, value) for the attribute the mapper gives: a hybrid method is a
\* plain bound method (an ordering comparison with it is a TypeError, an
\* equality with it the constant False), a relationship compares by equality
\* only, anything else is a column expression
apply_operator(cls, on, attr_name, op) ==
    IF attr_name \in HybridMethods(cls)
    THEN IF op \in {OpEq, OpExact}
         THEN [err |-> NoError, expr |-> [on |-> 0, attr |-> <<>>, op |-> <<"f", "a", "l", "s", "e">>]]
         ELSE [err |-> Raised("TypeError", "not supported", attr_name, op), expr |-> <<>>]
    ELSE IF attr_name \in Relations(cls) /\ op \notin {OpEq, OpExact}
    THEN [err |-> Raised("NotImplementedError", "not supported", attr_name, op), expr |-> <<>>]
    ELSE [err |-> NoError, expr |-> [on |-> on, attr |-> attr_name, op |-> op]]

filter_expr(cls, on, attr) ==
    IF attr \in HybridMethods(cls)
    THEN [err |-> NoError, expr |-> [on |-> on, attr |-> attr, op |-> <<"m">>]]
    ELSE LET split == StrContains(attr, OPERATOR_SPLITTER)
             parts == IF split THEN RSplit1(attr, OPERATOR_SPLITTER) ELSE << attr, OpEq >>
         IN IF split /\ parts[2] \notin OperatorNames
            THEN [err |-> Raised("KeyError", "incorrect operator", attr, parts[2]),
                  expr |-> <<>>]
            ELSE IF parts[1] \notin FilterableAttributes(cls)
            THEN [err |-> Raised("KeyError", "incorrect attribute", attr, parts[1]),
                  expr |-> <<>>]
            ELSE apply_operator(cls, on, parts[1], parts[2])

\* _order_expr, were the marker dropped and the order left ascending
order_expr_ascending(cls, on, column) ==
    LET attr == IF StartsWith(column, DESC_PREFIX) THEN Tail(column) ELSE column
    IN IF attr \notin SortableAttributes(cls)
       THEN [err |-> Raised("KeyError", "cant order", <<>>, attr), expr |-> <<>>]
       ELSE [err |-> NoError, expr |-> [on |-> on, attr |-> attr, dir |-> "asc"]]

order_expr(cls, on, column) ==
    LET isdesc == StartsWith(column, DESC_PREFIX)
        attr == IF isdesc THEN Tail(column) ELSE column
    IN IF attr \notin SortableAttributes(cls)
       THEN [err |-> Raised("KeyError", "cant order", <<>>, attr), expr |-> <<>>]
       ELSE [err |-> NoError,
             expr |-> [on |-> on, attr |-> attr, dir |-> IF isdesc THEN "desc" ELSE "asc"]]

(***************************************************************************)
(* _flatten_schema.  A schema is a dict, in insertion order, of items     *)
(* [path, kind, tag, tree]: kind "tag" is a bare strategy tag, "tree" a   *)
(* nested dict, "pair" a (strategy, nested dict) tuple.                    *)
(***************************************************************************)
\* a _flatten that does not go into the nested dicts
RECURSIVE FlattenShallow(_, _, _, _)
FlattenShallow(schema, i, parent_path, result) ==
    IF i > Len(schema) THEN result
    ELSE LET item == schema[i]
             join_method == IF item.kind = "tree" THEN JOINED ELSE item.tag
             full_path == IF parent_path # <<>> THEN parent_path \o <<".">> \o item.path
                          ELSE item.path
         IN FlattenShallow(schema, i + 1, parent_path,
                DictSet(result, [path |-> full_path, method |-> join_method]))

RECURSIVE Flatten(_, _, _, _)
Flatten(schema, i, parent_path, result) ==
    IF i > Len(schema) THEN result
    ELSE LET item == schema[i]
             join_method == IF item.kind = "tree" THEN JOINED ELSE item.tag
             inner_schema == IF item.kind = "tag" THEN <<>> ELSE item.tree
             full_path == IF parent_path # <<>> THEN parent_path \o <<".">> \o item.path
                          ELSE item.path
             put == DictSet(result, [path |-> full_path, method |-> join_method])
         IN Flatten(schema, i + 1, parent_path,
                IF inner_schema # <<>> THEN Flatten(inner_schema, 1, full_path, put) ELSE put)

flatten_schema(schema) == Flatten(schema, 1, <<>>, <<>>)

\* _eager_expr_from_flat_schema.  Result: [err, opts]
RECURSIVE EagerExprs(_, _, _)
EagerExprs(flat_schema, i, result) ==
    IF i > Len(flat_schema) THEN [err |-> NoError, opts |-> result]
    ELSE IF flat_schema[i].method = JOINED
         THEN EagerExprs(flat_schema, i + 1,
                  Append(result, [kind |-> "joinedload", path |-> flat_schema[i].path, alias |-> 0]))
    ELSE IF flat_schema[i].method = SUBQUERY
         THEN EagerExprs(flat_schema, i + 1,
                  Append(result, [kind |-> "subqueryload", path |-> flat_schema[i].path, alias |-> 0]))
    ELSE [err |-> Raised("ValueError", "bad join method", flat_schema[i].path, <<>>),
          opts |-> <<>>]

eager_expr_from_flat_schema(flat_schema) == EagerExprs(flat_schema, 1, <<>>)

(***************************************************************************)
(* What the relational engine makes of a Query: of the loader options     *)
(* given for one relationship path the one given last decides how the     *)
(* path is loaded, and a joinedload adds a join of its own.                *)
(***************************************************************************)
LoaderFor(query, dotted) ==
    LET given == {i \in 1..Len(query.opts) : query.opts[i].path = dotted}
    IN IF given = {} THEN "lazy" ELSE query.opts[SetMax(given)].kind

\* the joins to the relation path in the statement of the query
JoinsTo(query, path) ==
    Cardinality({j \in 1..Len(query.joins) : query.joins[j].path = path})
    + (IF LoaderFor(query, StrReplace(path, RELATION_SPLITTER, <<".">>)) = "joinedload"
       THEN 1 ELSE 0)

(***************************************************************************)
(* smart_query, loop by loop.  A run is [query, err, loaded] plus what    *)
(* the call is given.                                                       *)
(***************************************************************************)
\* lines 242-247: the outer joins
RECURSIVE JoinAliases(_, _, _, _)
JoinAliases(aliases, flat_schema, i, run) ==
    IF i > Len(aliases) THEN run
    ELSE LET al == aliases[i]
             relationship_path == StrReplace(al.path, RELATION_SPLITTER, <<".">>)
             at == DictIndex(flat_schema, relationship_path)
         IN IF ~(at # 0 /\ flat_schema[at].method = SUBQUERY)
            THEN JoinAliases(aliases, flat_schema, i + 1,
                     [run EXCEPT
                        !.query.joins = Append(@, [alias |-> al.alias, path |-> al.path,
                                                    rel |-> al.rel]),
                        !.query.opts = Append(@, [kind |-> "contains_eager",
                                                   path |-> relationship_path,
                                                   alias |-> al.alias]),
                        !.loaded = Append(@, relationship_path)])
            ELSE JoinAliases(aliases, flat_schema, i + 1, run)

\* lines 249-258: the filters
RECURSIVE ApplyFilters(_, _, _, _)
ApplyFilters(aliases, filters, i, run) ==
    IF run.err.kind # "none" \/ i > Len(filters) THEN run
    ELSE LET attr == filters[i]
             rel == StrContains(attr, RELATION_SPLITTER)
             parts == IF rel THEN RSplit1(attr, RELATION_SPLITTER) ELSE << <<>>, attr >>
             at == IF rel THEN DictIndex(aliases, parts[1]) ELSE 0
         IN IF rel /\ at = 0
            THEN [run EXCEPT !.err = Raised("KeyError", "missing key", parts[1], <<>>)]
            ELSE LET cls == IF rel THEN aliases[at].cls ELSE RootCls
                     on == IF rel THEN aliases[at].alias ELSE 0
                     fe == filter_expr(cls, on, parts[2])
                 IN IF fe.err.kind # "none"
                    THEN [run EXCEPT !.err = IF fe.err.kind = "KeyError"
                                             THEN Wrapped("incorrect filter path", attr, fe.err)
                                             ELSE fe.err]
                    ELSE ApplyFilters(aliases, filters, i + 1,
                             [run EXCEPT !.query.preds = Append(@, fe.expr)])

\* lines 260-273: the ordering
RECURSIVE ApplySorts(_, _, _, _)
ApplySorts(aliases, sort_attrs, i, run) ==
    IF run.err.kind # "none" \/ i > Len(sort_attrs) THEN run
    ELSE LET raw == sort_attrs[i]
             rel == StrContains(raw, RELATION_SPLITTER)
             prefix == IF rel /\ StartsWith(raw, DESC_PREFIX) THEN DESC_PREFIX ELSE <<>>
             attr == IF rel /\ StartsWith(raw, DESC_PREFIX) THEN LStrip(raw, DESC_PREFIX)
                     ELSE raw
             parts == IF rel THEN RSplit1(attr, RELATION_SPLITTER) ELSE << <<>>, attr >>
             at == IF rel THEN DictIndex(aliases, parts[1]) ELSE 0
         IN IF rel /\ at = 0
            THEN [run EXCEPT !.err = Raised("KeyError", "missing key", parts[1], <<>>)]
            ELSE LET cls == IF rel THEN aliases[at].cls ELSE RootCls
                     on == IF rel THEN aliases[at].alias ELSE 0
                     oe == order_expr(cls, on, IF rel THEN prefix \o parts[2] ELSE attr)
                 IN IF oe.err.kind # "none"
                    THEN [run EXCEPT !.err = Wrapped("incorrect order path", attr, oe.err)]
                    ELSE ApplySorts(aliases, sort_attrs, i + 1,
                             [run EXCEPT !.query.orders = Append(@, oe.expr)])

\* the eager loads, were every path of the schema emitted
ApplyEagerAll(flat_schema, run) ==
    IF run.err.kind # "none" \/ flat_schema = <<>> THEN run
    ELSE LET ee == eager_expr_from_flat_schema(flat_schema)
         IN IF ee.err.kind # "none" THEN [run EXCEPT !.err = ee.err]
            ELSE [run EXCEPT !.query.opts = @ \o ee.opts]

\* lines 275-277: the eager loads that no join has loaded
ApplyEager(flat_schema, run) ==
    IF run.err.kind # "none" \/ flat_schema = <<>> THEN run
    ELSE LET not_loaded_part ==
                 SelectSeq(flat_schema,
                           LAMBDA it : \A j \in 1..Len(run.loaded) : run.loaded[j] # it.path)
             ee == eager_expr_from_flat_schema(not_loaded_part)
         IN IF ee.err.kind # "none" THEN [run EXCEPT !.err = ee.err]
            ELSE [run EXCEPT !.query.opts = @ \o ee.opts]

\* smart_query(query, filters, sort_attrs, schema), where aliased() objects get
\* the identities first, first + 1, ...
\* Result: [query, err, loaded, aliases, next]
smart_query(query, filters, sort_attrs, schema, first) ==
    LET flat_schema == IF schema # <<>> THEN flatten_schema(schema) ELSE <<>>
        attrs == filters \o [i \in 1..Len(sort_attrs) |-> LStrip(sort_attrs[i], DESC_PREFIX)]
        parsed == parse_path_and_make_aliases(RootCls, <<>>, attrs,
                      [aliases |-> <<>>, next |-> first, err |-> NoError])
        start == [query |-> query, err |-> parsed.err, loaded |-> <<>>]
        joined == IF parsed.err.kind # "none" THEN start
                  ELSE JoinAliases(parsed.aliases, flat_schema, 1, start)
        filtered == ApplyFilters(parsed.aliases, filters, 1, joined)
        sorted == ApplySorts(parsed.aliases, sort_attrs, 1, filtered)
        done == ApplyEager(flat_schema, sorted)
    IN [query |-> done.query, err |-> done.err, loaded |-> done.loaded,
        aliases |-> parsed.aliases, next |-> parsed.next]

(***************************************************************************)
(* The keys the callers of this model give: a relation path and a leaf,   *)
(* written as the key string the caller passes.                            *)
(***************************************************************************)
RECURSIVE JoinRels(_)
JoinRels(rels) ==
    IF rels = <<>> THEN <<>>
    ELSE IF Len(rels) = 1 THEN rels[1]
    ELSE rels[1] \o RELATION_SPLITTER \o JoinRels(Tail(rels))

KeyString(k) ==
    IF k.rels = <<>> THEN k.leaf ELSE JoinRels(k.rels) \o RELATION_SPLITTER \o k.leaf

SortString(k) == (IF k.desc THEN DESC_PREFIX ELSE <<>>) \o KeyString(k)

FilterKeys ==
    { [rels |-> <<>>, leaf |-> Cx],
      [rels |-> <<Ra>>, leaf |-> Cx],
      [rels |-> <<Ra>>, leaf |-> Cy \o OPERATOR_SPLITTER \o OpGt],
      [rels |-> <<Ra, Rb>>, leaf |-> Cy],
      [rels |-> <<Ra, Ra>>, leaf |-> Cx] }

SortKeys ==
    { [desc |-> FALSE, rels |-> <<>>, leaf |-> Cy],
      [desc |-> TRUE, rels |-> <<Ra>>, leaf |-> Cx],
      [desc |-> FALSE, rels |-> <<Rb>>, leaf |-> Cy] }

Tag(path, tag) == [path |-> path, kind |-> "tag", tag |-> tag, tree |-> <<>>]

Tree(path, tree) == [path |-> path, kind |-> "tree", tag |-> "", tree |-> tree]

Pair(path, tag, tree) == [path |-> path, kind |-> "pair", tag |-> tag, tree |-> tree]

Schemas ==
    { <<>>,
      << Tag(Ra, JOINED) >>,
      << Tag(Ra, SUBQUERY) >>,
      << Tree(Ra, << Tag(Rb, SUBQUERY) >>) >>,
      << Pair(Rb, SUBQUERY, << Tag(Ra, JOINED) >>) >>,
      << Tag(Rb, "lazy") >> }

FieldLists == { <<>>, <<Ra>>, <<Rb>>, <<Ra, Rb>> }

SeqsUpTo(S, n) == UNION {[1..k -> S] : k \in 0..n}

\* the keys of a dict are distinct
DictKeys(S, n) == {f \in SeqsUpTo(S, n) : \A i, j \in 1..Len(f) : f[i] = f[j] => i = j}

(***************************************************************************)
(* A SmartQuery and the last call made on it.                              *)
(***************************************************************************)
VARIABLES
    sq,         \* the SmartQuery at the end of the chain: its model and its query
    call,       \* the last call: what it was given, its alias dict, its outcome
    nextAlias,  \* the identity of the next aliased() object
    calls       \* the number of calls of the chain

qvars == <<sq, call, nextAlias, calls>>

NoCall ==
    [op |-> "init", filters |-> <<>>, sorts |-> <<>>, schema |-> <<>>, aliases |-> <<>>,
     err |-> NoError, base |-> EmptyQuery, result |-> EmptyQuery]

\* SmartQuery(model, query) over a query no call has touched yet
InitQuery ==
    /\ sq = [model |-> RootCls, query |-> EmptyQuery, built |-> {}, fkeys |-> <<>>,
             fields |-> {}]
    /\ call = NoCall
    /\ nextAlias = 1
    /\ calls = 0

Size(query) == Len(query.preds) + Len(query.orders)

Budget == MaxAttrs - Size(sq.query)

\* SmartQuery(model, r.query) for the outcome r of smart_query on the query of
\* sq; a call that raises returns nothing, and the chain stays where it was
Wrap(op, fkeys, skeys, schema, r) ==
    /\ calls < MaxCalls
    /\ calls' = calls + 1
    /\ call' = [op |-> op, filters |-> fkeys, sorts |-> skeys, schema |-> schema,
                aliases |-> IF r.err.kind = "none" THEN r.aliases ELSE <<>>,
                err |-> r.err, base |-> sq.query,
                result |-> IF r.err.kind = "none" THEN r.query ELSE sq.query]
    /\ sq' = IF r.err.kind = "none"
             THEN [model |-> sq.model, query |-> r.query, built |-> sq.built \cup {op},
                   fkeys |-> sq.fkeys \o fkeys,
                   fields |-> sq.fields \cup {schema[i].path : i \in 1..Len(schema)}]
             ELSE sq
    /\ nextAlias' = IF r.err.kind = "none" THEN r.next ELSE nextAlias

\* one call of smart_query on the query of sq, given the keys as strings
Chain(op, fkeys, skeys, schema) ==
    Wrap(op, fkeys, skeys, schema,
         smart_query(sq.query,
                     [i \in 1..Len(fkeys) |-> KeyString(fkeys[i])],
                     [i \in 1..Len(skeys) |-> SortString(skeys[i])],
                     schema, nextAlias))

\* SmartQuery.filter(**filters)
SQFilter ==
    \E fkeys \in DictKeys(FilterKeys, Budget) :
        Chain("filter", fkeys, <<>>, <<>>)

\* SmartQuery.order_by(*sort_attrs)
SQOrderBy ==
    \E skeys \in SeqsUpTo(SortKeys, Budget) :
        Chain("order_by", <<>>, skeys, <<>>)

\* SmartQuery.select_related(*fields)
SQSelectRelated ==
    \E fields \in FieldLists :
        Chain("select_related", <<>>, <<>>, [i \in 1..Len(fields) |-> Tag(fields[i], JOINED)])

\* smart_query(query, filters, sort_attrs, schema) on the query no call has
\* touched yet, the result wrapped in SmartQuery(model, query)
SQSmartQuery ==
    /\ calls = 0
    /\ \E fkeys \in DictKeys(FilterKeys, Budget) :
          \E skeys \in SeqsUpTo(SortKeys, Budget - Len(fkeys)) :
              \E schema \in Schemas :
                  Chain("smart_query", fkeys, skeys, schema)

(***************************************************************************)
(* SmartQuery objects by identity.  An object holds its model and _query, *)
(* which is None (cached = FALSE) until the query property is first read. *)
(* from and op record the receiver and the method that returned it.       *)
(***************************************************************************)
MaxObjs == 3
MaxMatch == 2

VARIABLES
    objs,       \* the SmartQuery objects made so far, by identity
    table,      \* the rows of the model's table: the criteria each satisfies
    got         \* the last get(): what it was given and its outcome

ovars == <<objs, table, got>>

\* SmartQuery(model): __init__ with query = None
NewSmartQuery(model, query, cached, from, op) ==
    [model |-> model, cached |-> cached, value |-> query, from |-> from, op |-> op]

\* the query property: model._db.session.query(model) when _query is None
QueryProperty(obj) == IF obj.cached THEN obj.value ELSE EmptyQuery

\* the object after its query property was read
Cached(obj) == [obj EXCEPT !.cached = TRUE, !.value = QueryProperty(obj)]

\* self.__class__(self.model, query) for a query computed from self.query
DeriveInPlace(heap, o, query, op) ==
    Append([heap EXCEPT ![o] = [@ EXCEPT !.cached = TRUE, !.value = query]],
           NewSmartQuery(heap[o].model, query, TRUE, o, op))

Derive(heap, o, query, op) ==
    Append([heap EXCEPT ![o] = Cached(@)],
           NewSmartQuery(heap[o].model, query, TRUE, o, op))

\* a criterion or ordering the caller builds with the engine's own API
Criterion(attr) == [on |-> 0, attr |-> attr, op |-> <<"i", "s">>]

Builders == {"filter", "order_by"}

\* build_query(query) for the builders above
ApplyBuilder(b, query) ==
    IF b = "filter" THEN [query EXCEPT !.preds = Append(@, Criterion(Cy))]
    ELSE [query EXCEPT !.orders = Append(@, [on |-> 0, attr |-> Cx, dir |-> "asc"])]

SaArgs == { <<Criterion(Cx)>>, <<Criterion(Cx), Criterion(Cy)>> }

\* the criteria a row can satisfy, and the root filter key asking for one
Atoms == { <<Cx, OpEq>>, <<Cy, OpGt>> }

AtomKey(a) ==
    [rels |-> <<>>, leaf |-> IF a[2] = OpEq THEN a[1] ELSE a[1] \o OPERATOR_SPLITTER \o a[2]]

\* a key no attribute of the root entity answers to
UnknownKey == [rels |-> <<>>, leaf |-> UnknownName]

RootSortKeys == {k \in SortKeys : k.rels = <<>>} \cup {[desc |-> TRUE, rels |-> <<>>, leaf |-> Cx]}

NoGet ==
    [op |-> "init", atoms |-> <<>>, base |-> EmptyQuery, table |-> <<>>,
     outcome |-> [kind |-> "none", model |-> "", row |-> 0]]

InitObj ==
    /\ objs = << NewSmartQuery(RootCls, EmptyQuery, FALSE, 0, "init") >>
    /\ table = <<>>
    /\ got = NoGet

\* one call on the object o that computes r = [query, err] from its query
\* property: a new object when it returns, none when it raises
Call(o, op, r) ==
    /\ Len(objs) < MaxObjs
    /\ objs' = IF r.err.kind = "none" THEN Derive(objs, o, r.query, op)
               ELSE [objs EXCEPT ![o] = Cached(@)]
    /\ UNCHANGED <<table, got>>

ObjFilter(o) ==
    /\ o <= Len(objs)
    /\ \E fkeys \in DictKeys({AtomKey(a) : a \in Atoms} \cup {UnknownKey}, MaxAttrs) :
        Call(o, "filter",
             smart_query(QueryProperty(objs[o]),
                         [i \in 1..Len(fkeys) |-> KeyString(fkeys[i])], <<>>, <<>>, 1))

ObjOrderBy(o) ==
    /\ o <= Len(objs)
    /\ \E k \in RootSortKeys :
        Call(o, "order_by",
             smart_query(QueryProperty(objs[o]), <<>>, <<SortString(k)>>, <<>>, 1))

ObjSelectRelated(o) ==
    /\ o <= Len(objs)
    /\ \E fields \in FieldLists :
        Call(o, "select_related",
             smart_query(QueryProperty(objs[o]), <<>>, <<>>,
                         [i \in 1..Len(fields) |-> Tag(fields[i], JOINED)], 1))

\* SmartQuery.custom_query(build_query)
ObjCustomQuery(o) ==
    /\ o <= Len(objs)
    /\ \E b \in Builders :
        Call(o, "custom_query",
             [query |-> ApplyBuilder(b, QueryProperty(objs[o])), err |-> NoError])

\* SmartQuery.sa_filter(*args): custom_query(lambda query: query.filter(*args))
ObjSaFilter(o) ==
    /\ o <= Len(objs)
    /\ \E args \in SaArgs :
        Call(o, "sa_filter",
             [query |-> [QueryProperty(objs[o]) EXCEPT !.preds = @ \o args],
              err |-> NoError])

(***************************************************************************)
(* get().  A row of the table is the set of criteria it satisfies.         *)
(***************************************************************************)
Satisfies(row, query) ==
    \A i \in 1..Len(query.preds) : <<query.preds[i].attr, query.preds[i].op>> \in row

\* Query.one_or_none(): the row (0: None), or MultipleResultsFound
one_or_none(query, tbl) ==
    LET found == {i \in 1..Len(tbl) : Satisfies(tbl[i], query)}
    IN IF found = {} THEN [kind |-> "none", row |-> 0]
       ELSE IF Cardinality(found) = 1 THEN [kind |-> "none", row |-> SetMin(found)]
       ELSE [kind |-> "MultipleResultsFound", row |-> 0]

\* SmartQuery.get() without filters, lines 85-91, and what it would return
\* were the first matching row taken
get_first(model, query, tbl) ==
    LET found == {i \in 1..Len(tbl) : Satisfies(tbl[i], query)}
    IN IF found = {} THEN [kind |-> "DoesNotExist", model |-> model, row |-> 0]
       ELSE [kind |-> "row", model |-> model, row |-> SetMin(found)]

get(model, query, tbl) ==
    LET obj == one_or_none(query, tbl)
    IN IF obj.kind = "MultipleResultsFound"
       THEN [kind |-> "MultipleObjectsReturned", model |-> "", row |-> 0]
       ELSE IF obj.row = 0
       THEN [kind |-> "DoesNotExist", model |-> model, row |-> 0]
       ELSE [kind |-> "row", model |-> model, row |-> obj.row]

\* a row is written to the table
InsertRow ==
    /\ Len(table) < MaxMatch
    /\ \E row \in SUBSET Atoms : table' = Append(table, row)
    /\ UNCHANGED <<objs, got, qvars>>

\* SmartQuery.filter(**filters) with keys of the root entity
SQFilterRoot ==
    /\ \E fkeys \in DictKeys({AtomKey(a) : a \in Atoms}, Budget) :
          Chain("filter", fkeys, <<>>, <<>>)
    /\ UNCHANGED ovars

\* SmartQuery.get(**filters): self.filter(**filters).get() when filters are
\* given, lines 82-83
SQGet ==
    \E atoms \in DictKeys(Atoms, MaxAttrs) :
        LET r == IF atoms # <<>>
                 THEN smart_query(sq.query,
                                  [i \in 1..Len(atoms) |-> KeyString(AtomKey(atoms[i]))],
                                  <<>>, <<>>, nextAlias)
                 ELSE [query |-> sq.query, err |-> NoError]
        IN /\ got' = [op |-> "get", atoms |-> atoms, base |-> sq.query, table |-> table,
                      outcome |-> IF r.err.kind # "none"
                                  THEN [kind |-> r.err.kind, model |-> "", row |-> 0]
                                  ELSE get(sq.model, r.query, table)]
           /\ UNCHANGED <<objs, table, qvars>>

(***************************************************************************)
(* Single calls that probe how one key is resolved: every relation path,  *)
(* valid or not, with every leaf attribute and operator suffix.            *)
(***************************************************************************)
ProbePaths == { <<>>, <<Ra>>, <<Ra, Rb>>, <<UnknownName>>, <<Ra, UnknownName>> }

ProbeKeys ==
    { [rels |-> rels, attr |-> attr, suffix |-> suffix,
       leaf |-> IF suffix = <<>> THEN attr ELSE attr \o OPERATOR_SPLITTER \o suffix] :
      rels \in ProbePaths,
      attr \in {Cx, Hp, Hm, Ra, Rv, UnknownName},
      suffix \in {<<>>, OpGt, OpExact, OpBad} }

ProbeSorts ==
    { [desc |-> desc, rels |-> rels, leaf |-> leaf] :
      desc \in BOOLEAN,
      rels \in { <<>>, <<Ra>>, <<Ra, UnknownName>> },
      leaf \in {Cx, DESC_PREFIX \o Cx, Hp, Hm, UnknownName} }

\* SmartQuery.filter(**{key: value}) on the query no call has touched yet
KeyFilter ==
    /\ calls = 0
    /\ \E k \in ProbeKeys : Chain("filter", <<k>>, <<>>, <<>>)

\* SmartQuery.order_by(*sort_attrs) on the query no call has touched yet
KeyOrderBy ==
    /\ calls = 0
    /\ \E skeys \in SeqsUpTo(ProbeSorts, MaxAttrs) :
          skeys # <<>> /\ Chain("order_by", <<>>, skeys, <<>>)

(***************************************************************************)
(* How a key is taken apart.  The alias registry splits at the first      *)
(* relation delimiter, again and again; the filter compiler splits at the *)
(* last relation delimiter and then at the last operator delimiter.       *)
(***************************************************************************)
MaxSegs == 2

VARIABLES
    parsed      \* the last key taken apart: what it was built from, what came out

pvars == <<parsed>>

\* relationship names and attribute names that are identifiers
RelationNames == { <<"a">>, <<"a", "_">>, <<"_", "b">> }

LeafNames == { <<"x">>, <<"x", "_">>, <<"_", "y">>, <<"x", "_", "y">> }

\* lines 167-168 and 183: the segments the registry takes for relation names
\* of one key, outermost first
RECURSIVE RegistrySegments(_)
RegistrySegments(attr) ==
    IF StrContains(attr, RELATION_SPLITTER)
    THEN <<Split1(attr, RELATION_SPLITTER)[1]>>
         \o RegistrySegments(Split1(attr, RELATION_SPLITTER)[2])
    ELSE <<>>

\* lines 250-254 and model.py:250-259: the path the compiler looks up in the
\* registry, the attribute name and the operator name (<<>>: none)
CompilerParts(attr) ==
    LET rel == StrContains(attr, RELATION_SPLITTER)
        parts == IF rel THEN RSplit1(attr, RELATION_SPLITTER) ELSE << <<>>, attr >>
        split == StrContains(parts[2], OPERATOR_SPLITTER)
        leaf == IF split THEN RSplit1(parts[2], OPERATOR_SPLITTER) ELSE << parts[2], <<>> >>
    IN [path |-> parts[1], attr |-> leaf[1], op |-> leaf[2]]

NoParse ==
    [rels |-> <<>>, leaf |-> <<>>, op |-> <<>>, key |-> <<>>, segments |-> <<>>,
     path |-> <<>>, attr |-> <<>>, suffix |-> <<>>]

InitParse == parsed = NoParse

\* a key built as (relation RELSEP)* leaf [OPSEP operator] is taken apart
ParseKey ==
    \E rels \in SeqsUpTo(RelationNames, MaxSegs), leaf \in LeafNames,
       op \in {<<>>, OpGt, OpExact} :
        LET key == KeyString([rels |-> rels,
                              leaf |-> IF op = <<>> THEN leaf
                                       ELSE leaf \o OPERATOR_SPLITTER \o op])
            cp == CompilerParts(key)
        IN parsed' = [rels |-> rels, leaf |-> leaf, op |-> op, key |-> key,
                      segments |-> RegistrySegments(key),
                      path |-> cp.path, attr |-> cp.attr, suffix |-> cp.op]

(***************************************************************************)
(* The eager-load trees _flatten_schema is called with: every dict, one   *)
(* level nested, of bare tags, nested dicts and (strategy, dict) pairs.   *)
(***************************************************************************)
VARIABLES
    flattened   \* the last schema flattened and the flat map that came out

fvars == <<flattened>>

TreeNames == {Ra, Rb}

\* the dicts whose keys are distinct relation names and whose values are Items
DictsOf(Items) ==
    {f \in SeqsUpTo(Items, Cardinality(TreeNames)) :
        \A i, j \in 1..Len(f) : f[i].path = f[j].path => i = j}

TagItems == {Tag(n, t) : n \in TreeNames, t \in {JOINED, SUBQUERY}}

TreeItems(Inner) ==
    {Tree(n, s) : n \in TreeNames, s \in Inner}
        \cup {Pair(n, t, s) : n \in TreeNames, t \in {JOINED, SUBQUERY}, s \in Inner}

TreeSchemas == DictsOf(TagItems \cup TreeItems(DictsOf(TagItems)))

NoFlat == [called |-> FALSE, schema |-> <<>>, result |-> <<>>]

InitFlatten == flattened = NoFlat

\* the one call _flatten_schema(schema) that an evaluation of smart_query makes
\* (line 223)
FlattenSchema ==
    /\ ~flattened.called
    /\ \E schema \in TreeSchemas :
        flattened' = [called |-> TRUE, schema |-> schema, result |-> flatten_schema(schema)]

(***************************************************************************)
(* Apps.populate (src/apps/registry.py).  Every thread calls populate()   *)
(* once; a call may be re-entered by its own thread while the apps are    *)
(* loaded (line 51 imports the app's code) or made ready (line 60).  A    *)
(* thread's frames are the lines its open calls of populate() are at, the *)
(* innermost last.                                                         *)
(***************************************************************************)
NumThreads == 2

VARIABLES
    registry,   \* the Apps object: ready, _loading, the RLock, how often the apps were loaded
    frames,     \* per thread: the lines its open calls of populate() stand at
    outcome     \* per thread: how its call of populate() went

avars == <<registry, frames, outcome>>

Threads == 1..NumThreads

\* Apps.__init__
InitPopulate ==
    /\ registry = [ready |-> FALSE, loading |-> FALSE, owner |-> 0, count |-> 0, loads |-> 0]
    /\ frames = [t \in Threads |-> <<>>]
    /\ outcome = [t \in Threads |-> [state |-> "idle", raised |-> FALSE, reentrant |-> FALSE]]

At(t, line) == frames[t] # <<>> /\ frames[t][Len(frames[t])] = line

Goto(t, line) == [frames EXCEPT ![t] = [@ EXCEPT ![Len(@)] = line]]

\* the innermost call of t returns; the outermost one ends the thread's call
Return(t) == [frames EXCEPT ![t] = SubSeq(@, 1, Len(@) - 1)]

Returned1(t) ==
    IF Len(frames[t]) = 1 THEN [outcome EXCEPT ![t].state = "returned"] ELSE outcome

\* RLock.release at the end of a with block
Release(r) ==
    [r EXCEPT !.count = @ - 1, !.owner = IF r.count = 1 THEN 0 ELSE @]

\* a thread calls apps.populate(...)
PopulateCall(t) ==
    /\ outcome[t].state = "idle"
    /\ frames' = [frames EXCEPT ![t] = <<"l32">>]
    /\ outcome' = [outcome EXCEPT ![t].state = "running"]
    /\ UNCHANGED registry

\* the code run at line 51 or line 60 calls populate() again
PopulateReenter(t) ==
    /\ At(t, "l50") \/ At(t, "l60")
    /\ frames' = [frames EXCEPT ![t] = Append(@, "l32")]
    /\ UNCHANGED <<registry, outcome>>

\* lines 32-33
PopulateCheckReady(t) ==
    /\ At(t, "l32")
    /\ IF registry.ready
       THEN frames' = Return(t) /\ outcome' = Returned1(t)
       ELSE frames' = Goto(t, "l37") /\ UNCHANGED outcome
    /\ UNCHANGED registry

\* line 37: RLock.acquire, which waits while another thread holds the lock
PopulateAcquire(t) ==
    /\ At(t, "l37")
    /\ registry.owner \in {0, t}
    /\ registry' = [registry EXCEPT !.owner = t, !.count = @ + 1]
    /\ frames' = Goto(t, "l38")
    /\ UNCHANGED outcome

\* lines 38-39
PopulateCheckReadyLocked(t) ==
    /\ At(t, "l38")
    /\ IF registry.ready
       THEN /\ registry' = Release(registry)
            /\ frames' = Return(t)
            /\ outcome' = Returned1(t)
       ELSE /\ frames' = Goto(t, "l43")
            /\ UNCHANGED <<registry, outcome>>

\* the with blocks of every open call of t are left by the exception
RECURSIVE Unwind(_, _)
Unwind(r, n) == IF n = 0 THEN r ELSE Unwind(Release(r), n - 1)

\* lines 43-47; the RuntimeError leaves every open call of the thread
PopulateCheckLoading(t) ==
    /\ At(t, "l43")
    /\ IF registry.loading
       THEN /\ registry' = Unwind(registry, Len(frames[t]))
            /\ frames' = [frames EXCEPT ![t] = <<>>]
            /\ outcome' = [outcome EXCEPT ![t] = [state |-> "raised", raised |-> TRUE,
                                                   reentrant |-> Len(frames[t]) > 1]]
       ELSE /\ registry' = [registry EXCEPT !.loading = TRUE]
            /\ frames' = Goto(t, "l50")
            /\ UNCHANGED outcome

\* lines 50-55 and the end of the with block
PopulateLoad(t) ==
    /\ At(t, "l50")
    /\ registry' = Release([registry EXCEPT !.loads = @ + 1])
    /\ frames' = Goto(t, "l57")
    /\ UNCHANGED outcome

\* lines 57-58
PopulateSetReady(t) ==
    /\ At(t, "l57")
    /\ registry' = [registry EXCEPT !.ready = TRUE]
    /\ frames' = Goto(t, "l60")
    /\ UNCHANGED outcome

\* line 60
PopulateReady(t) ==
    /\ At(t, "l60")
    /\ frames' = Return(t)
    /\ outcome' = Returned1(t)
    /\ UNCHANGED registry

(***************************************************************************)
(* The engines cache (src/db/engine.py) and the sessions that             *)
(* _create_sessionmaker binds to its engines (src/db/session.py:44-60).   *)
(* Engines are numbered as they are created; number 1 is the engine that  *)
(* init_engine() makes for the key "default" at import; 0 is no engine.   *)
(* The custom parameters of a scope are the keys of its dict, in order.   *)
(***************************************************************************)
MaxEngines == 3

VARIABLES
    engines,    \* _engines_cache: key -> engine
    made,       \* how many engines were created so far
    scopes      \* per context: its DB scope, the scope's parameters and session engine

evars == <<engines, made, scopes>>

EngineKeys == {"default", "pg1"}

DefaultEngine == 1

CustomParams == { <<>>, <<"pg1">>, <<"default">>, <<"pg1", "default">>, <<"default", "pg1">> }

NoScope == [open |-> FALSE, params |-> <<>>, bind |-> 0]

\* engine.py:7-9 and 46-48, settings.DATABASE being one dsn
InitEngine ==
    /\ engines = [k \in EngineKeys |-> IF k = "default" THEN DefaultEngine ELSE 0]
    /\ made = 1
    /\ scopes = [c \in Ctx |-> NoScope]

\* lines 52-53: the cache after the parameters from the i-th on were stored
RECURSIVE CacheAfter(_, _, _, _)
CacheAfter(params, i, cache, count) ==
    IF i > Len(params) THEN [cache |-> cache, count |-> count]
    ELSE CacheAfter(params, i + 1, [cache EXCEPT ![params[i]] = count + 1], count + 1)

\* _create_sessionmaker(params): the cache, the engines made and the engine
\* the sessions are bound to (line 49, or line 54 at the last parameter)
create_sessionmaker(params, cache, count) ==
    LET r == CacheAfter(params, 1, cache, count)
    IN [cache |-> r.cache, count |-> r.count,
        bind |-> IF params = <<>> THEN cache["default"] ELSE r.cache[params[Len(params)]]]

\* DB(custom_session_params=...).__enter__
EngineScopeEnter(c) ==
    /\ ~scopes[c].open
    /\ \E params \in CustomParams :
          scopes' = [scopes EXCEPT ![c] = [open |-> TRUE, params |-> params, bind |-> 0]]
    /\ UNCHANGED <<engines, made>>

\* DB.session: the first access in a scope makes the session
EngineSessionAccess(c) ==
    /\ scopes[c].open
    /\ scopes[c].bind = 0
    /\ made + Len(scopes[c].params) <= MaxEngines
    /\ LET r == create_sessionmaker(scopes[c].params, engines, made)
       IN /\ engines' = r.cache
          /\ made' = r.count
          /\ scopes' = [scopes EXCEPT ![c].bind = r.bind]

\* DB.__exit__
EngineScopeExit(c) ==
    /\ scopes[c].open
    /\ scopes' = [scopes EXCEPT ![c] = NoScope]
    /\ UNCHANGED <<engines, made>>

xvars == <<pvars, fvars, avars, evars>>

(***************************************************************************)
(* Spec: one context, its scopes, savepoints and writes.                  *)
(* SpecCtx: every context, scope entry, DB.session and scope exit.        *)
(***************************************************************************)
NextTx ==
    \E c \in TxCtx :
        \/ DBEnter(c) /\ UNCHANGED <<qvars, ovars, xvars>>
        \/ DBExit(c) /\ UNCHANGED <<qvars, ovars, xvars>>
        \/ SessionAccess(c) /\ UNCHANGED <<qvars, ovars, xvars>>
        \/ \E r \in Rows : ModelSave(c, r) /\ UNCHANGED <<qvars, ovars, xvars>>
        \/ \E r \in Rows : ModelDelete(c, r) /\ UNCHANGED <<qvars, ovars, xvars>>
        \/ \E r \in Rows, v \in {"put", "del"} : Execute(c, r, v) /\ UNCHANGED <<qvars, ovars, xvars>>
        \/ Commit(c) /\ UNCHANGED <<qvars, ovars, xvars>>
        \/ Rollback(c) /\ UNCHANGED <<qvars, ovars, xvars>>
        \/ AtomicEnter(c) /\ UNCHANGED <<qvars, ovars, xvars>>
        \/ AtomicExit(c) /\ UNCHANGED <<qvars, ovars, xvars>>
        \/ Raise(c) /\ UNCHANGED <<qvars, ovars, xvars>>
        \/ Catch(c) /\ UNCHANGED <<qvars, ovars, xvars>>

NextCtx ==
    \E c \in Ctx :
        \/ DBEnter(c) /\ UNCHANGED <<qvars, ovars, xvars>>
        \/ DBExit(c) /\ UNCHANGED <<qvars, ovars, xvars>>
        \/ SessionAccess(c) /\ UNCHANGED <<qvars, ovars, xvars>>
        \/ Raise(c) /\ UNCHANGED <<qvars, ovars, xvars>>
        \/ Catch(c) /\ UNCHANGED <<qvars, ovars, xvars>>

NextQuery ==
    \/ SQFilter /\ UNCHANGED <<svars, ovars, xvars>>
    \/ SQOrderBy /\ UNCHANGED <<svars, ovars, xvars>>
    \/ SQSelectRelated /\ UNCHANGED <<svars, ovars, xvars>>
    \/ SQSmartQuery /\ UNCHANGED <<svars, ovars, xvars>>

NextObj ==
    \E o \in 1..MaxObjs :
        \/ ObjFilter(o) /\ UNCHANGED <<svars, qvars, xvars>>
        \/ ObjOrderBy(o) /\ UNCHANGED <<svars, qvars, xvars>>
        \/ ObjSelectRelated(o) /\ UNCHANGED <<svars, qvars, xvars>>
        \/ ObjCustomQuery(o) /\ UNCHANGED <<svars, qvars, xvars>>
        \/ ObjSaFilter(o) /\ UNCHANGED <<svars, qvars, xvars>>

NextFail ==
    \E c \in TxCtx :
        \/ DBEnter(c) /\ UNCHANGED <<qvars, ovars, xvars>>
        \/ DBExit(c) /\ UNCHANGED <<qvars, ovars, xvars>>
        \/ DBExitFails(c) /\ UNCHANGED <<qvars, ovars, xvars>>
        \/ SessionAccess(c) /\ UNCHANGED <<qvars, ovars, xvars>>
        \/ \E r \in Rows, v \in {"put", "del"} : Execute(c, r, v) /\ UNCHANGED <<qvars, ovars, xvars>>
        \/ Raise(c) /\ UNCHANGED <<qvars, ovars, xvars>>
        \/ Catch(c) /\ UNCHANGED <<qvars, ovars, xvars>>

NextKeys ==
    \/ KeyFilter /\ UNCHANGED <<svars, ovars, xvars>>
    \/ KeyOrderBy /\ UNCHANGED <<svars, ovars, xvars>>

NextGet ==
    \/ InsertRow /\ UNCHANGED <<svars, xvars>>
    \/ SQFilterRoot /\ UNCHANGED <<svars, xvars>>
    \/ SQGet /\ UNCHANGED <<svars, xvars>>

NextParse ==
    \/ ParseKey /\ UNCHANGED <<svars, qvars, ovars, fvars, avars, evars>>

NextFlatten ==
    \/ FlattenSchema /\ UNCHANGED <<svars, qvars, ovars, pvars, avars, evars>>

NextPopulate ==
    \E t \in Threads :
        \/ PopulateCall(t) /\ UNCHANGED <<svars, qvars, ovars, pvars, fvars, evars>>
        \/ PopulateReenter(t) /\ UNCHANGED <<svars, qvars, ovars, pvars, fvars, evars>>
        \/ PopulateCheckReady(t) /\ UNCHANGED <<svars, qvars, ovars, pvars, fvars, evars>>
        \/ PopulateAcquire(t) /\ UNCHANGED <<svars, qvars, ovars, pvars, fvars, evars>>
        \/ PopulateCheckReadyLocked(t) /\ UNCHANGED <<svars, qvars, ovars, pvars, fvars, evars>>
        \/ PopulateCheckLoading(t) /\ UNCHANGED <<svars, qvars, ovars, pvars, fvars, evars>>
        \/ PopulateLoad(t) /\ UNCHANGED <<svars, qvars, ovars, pvars, fvars, evars>>
        \/ PopulateSetReady(t) /\ UNCHANGED <<svars, qvars, ovars, pvars, fvars, evars>>
        \/ PopulateReady(t) /\ UNCHANGED <<svars, qvars, ovars, pvars, fvars, evars>>

NextEngine ==
    \E c \in Ctx :
        \/ EngineScopeEnter(c) /\ UNCHANGED <<svars, qvars, ovars, pvars, fvars, avars>>
        \/ EngineSessionAccess(c) /\ UNCHANGED <<svars, qvars, ovars, pvars, fvars, avars>>
        \/ EngineScopeExit(c) /\ UNCHANGED <<svars, qvars, ovars, pvars, fvars, avars>>

Init == InitSession /\ InitQuery /\ InitObj /\ InitParse /\ InitFlatten /\ InitPopulate /\ InitEngine

Next == NextTx

vars == <<svars, qvars, ovars, xvars>>

Spec == Init /\ [][Next]_vars

SpecCtx == Init /\ [][NextCtx]_vars

SpecQuery == Init /\ [][NextQuery]_vars

SpecObj == Init /\ [][NextObj]_vars

SpecGet == Init /\ [][NextGet]_vars

SpecKeys == Init /\ [][NextKeys]_vars

SpecFail == Init /\ [][NextFail]_vars

SpecParse == Init /\ [][NextParse]_vars

SpecFlatten == Init /\ [][NextFlatten]_vars

SpecPopulate == Init /\ [][NextPopulate]_vars

SpecEngine == Init /\ [][NextEngine]_vars

(***************************************************************************)
(* Properties of the session scope.                                        *)
(***************************************************************************)
SessionOps == {"access", "save", "delete", "execute", "commit", "rollback", "begin_nested"}

\* the session a step of context c that ends a scope finalises (0: none)
ExitSession(c) == states[DbGet(c)].session

\* C1: when a scope whose session exists exits, __exit__ commits the outer
\* transaction if no exception propagated and rolls it back, discarding every
\* uncommitted change, if one did.
C1_ExitCommitsOrRollsBack ==
    [][\A c \in Ctx :
         (last'.op = "exit" /\ last'.ctx = c /\ last'.sess # 0) =>
             IF exc[c]
             THEN store' = store
             ELSE store' = ApplyTo(store, sessions[ExitSession(c)].txn)]_vars

\* C2: after a scope has exited through an exception, no change made through
\* the scope's session is committed to the store.
C2_NoWriteSurvivesFailedScope ==
    (last.op = "exit" /\ last.raised) => ~last.durable

\* C3: with a savepoint open, commit() (also the one Model.save and Model.delete
\* make) only flushes: the savepoints stay as they are, the store is not
\* touched, and what the session reads afterwards holds the flushed change.
C3_NestedCommitOnlyFlushes ==
    [][\A c \in Ctx :
         (last'.op \in {"commit", "save", "delete"} /\ last'.ctx = c /\ last'.nested) =>
             LET before == sessions[last'.sess]
                 after == sessions'[last'.sess]
             IN /\ after.sps = before.sps
                /\ after.sps # <<>>
                /\ store' = store
                /\ after.durable = before.durable
                /\ after.pend = NoChange
                /\ last'.op = "commit" => after.txn = before.txn
                /\ last'.op = "save" =>
                       \E r \in Rows : /\ after.txn = [before.txn EXCEPT ![r] = "put"]
                                       /\ FlushedView(after, store')[r]
                /\ last'.op = "delete" =>
                       \E r \in Rows : /\ after.txn = [before.txn EXCEPT ![r] = "del"]
                                       /\ ~FlushedView(after, store')[r]]_vars

C3_Witness ==
    /\ last.op = "save"
    /\ last.nested
    /\ in_nested_transaction(sessions[last.sess])
    /\ \E r \in Rows : sessions[last.sess].txn[r] = "put" /\ ~store[r]

\* C4: with a savepoint open, rollback() does nothing: it does not raise, the
\* savepoints and the changes of the session stay as they are, the store too.
C4_NestedRollbackIsNoOp ==
    [][\A c \in Ctx :
         (last'.op = "rollback" /\ last'.ctx = c /\ last'.nested) =>
             /\ sessions' = sessions
             /\ store' = store
             /\ ~exc'[c]
             /\ ~last'.raised]_vars

C4_Witness ==
    /\ last.op = "rollback"
    /\ last.nested
    /\ in_nested_transaction(sessions[last.sess])
    /\ sessions[last.sess].txn # sessions[last.sess].sps[1]
    /\ sessions[last.sess].sps[1] # NoChange

\* C5: with no savepoint open, commit() commits the outer transaction and
\* rollback() rolls it back, so that changes pending before the rollback are
\* never persisted.
C5_OuterCommitAndRollback ==
    [][\A c \in Ctx :
         /\ (last'.op = "commit" /\ last'.ctx = c /\ ~last'.nested /\ ~last'.raised) =>
                /\ store' = ApplyTo(store, sessions[last'.sess].txn)
                /\ sessions'[last'.sess].txn = NoChange
         /\ (last'.op = "rollback" /\ last'.ctx = c /\ ~last'.nested /\ ~last'.raised) =>
                /\ store' = store
                /\ sessions'[last'.sess].txn = NoChange
                /\ sessions'[last'.sess].durable = sessions[last'.sess].durable]_vars

CallJoins == SubSeq(call.result.joins, Len(call.base.joins) + 1, Len(call.result.joins))

CallPreds == SubSeq(call.result.preds, Len(call.base.preds) + 1, Len(call.result.preds))

CallOrders == SubSeq(call.result.orders, Len(call.base.orders) + 1, Len(call.result.orders))

\* the relation paths the keys of the last call go through, shared prefixes included
CallPaths ==
    LET rels == {call.filters[i].rels : i \in 1..Len(call.filters)}
                \cup {call.sorts[i].rels : i \in 1..Len(call.sorts)}
    IN UNION {{SubSeq(r, 1, n) : n \in 1..Len(r)} : r \in rels}

\* the alias identities the last call registered for the relation path p
AliasesOf(p) ==
    {call.aliases[i].alias : i \in {j \in 1..Len(call.aliases) : call.aliases[j].path = JoinRels(p)}}

Returned == call.op # "init" /\ call.err.kind = "none"

\* C9: within one smart_query call that returns, every relation path the filter
\* and sort keys go through (shared prefixes included) has exactly one alias,
\* exactly one outer join is issued for that alias, and every key through the
\* path is compiled against that alias.
C9_OneAliasOneJoinPerPath ==
    Returned =>
        /\ Len(call.aliases) = Cardinality(CallPaths)
        /\ \A p \in CallPaths :
              /\ Cardinality(AliasesOf(p)) = 1
              /\ \A a \in AliasesOf(p) :
                    Cardinality({j \in 1..Len(CallJoins) : CallJoins[j].alias = a}) = 1
        /\ Len(CallJoins) = Len(call.aliases)
        /\ \A i \in 1..Len(call.filters) :
              call.filters[i].rels # <<>> => CallPreds[i].on \in AliasesOf(call.filters[i].rels)
        /\ \A i \in 1..Len(call.sorts) :
              call.sorts[i].rels # <<>> => CallOrders[i].on \in AliasesOf(call.sorts[i].rels)

\* the relation paths the composed query has joined
JoinedPaths == {sq.query.joins[j].path : j \in 1..Len(sq.query.joins)}

\* C10: in a query composed by chaining filter and order_by calls, each relation
\* path is aliased and outer-joined exactly once, and every predicate and
\* ordering through a relation refers to a joined alias.
C10_ChainJoinsPathOnce ==
    (sq.built # {} /\ sq.built \subseteq {"filter", "order_by"}) =>
        /\ \A p \in JoinedPaths :
              Cardinality({j \in 1..Len(sq.query.joins) : sq.query.joins[j].path = p}) = 1
        /\ \A i \in 1..Len(sq.query.preds) :
              sq.query.preds[i].on # 0 =>
                  \E j \in 1..Len(sq.query.joins) : sq.query.joins[j].alias = sq.query.preds[i].on
        /\ \A i \in 1..Len(sq.query.orders) :
              sq.query.orders[i].on # 0 =>
                  \E j \in 1..Len(sq.query.joins) : sq.query.joins[j].alias = sq.query.orders[i].on

\* C11: a query composed of select_related(r) and a filter whose key goes
\* through r, in either order, holds exactly one join to r.
C11_SelectRelatedMergesWithFilter ==
    sq.built = {"filter", "select_related"} =>
        \A r \in sq.fields :
            (\E i \in 1..Len(sq.fkeys) : sq.fkeys[i].rels # <<>> /\ sq.fkeys[i].rels[1] = r)
                => JoinsTo(sq.query, r) = 1

(***************************************************************************)
(* Properties of the SmartQuery objects and of get().                      *)
(***************************************************************************)
\* C12: filter, order_by, select_related, custom_query and sa_filter return a
\* new SmartQuery and leave every SmartQuery there was, the receiver and the
\* successors derived from it before, with the model and the query it had.
C12_CallsNeverMutate ==
    [][ /\ Len(objs') >= Len(objs)
        /\ \A o \in 1..Len(objs) :
              /\ objs'[o].model = objs[o].model
              /\ QueryProperty(objs'[o]) = QueryProperty(objs[o])
        /\ \A n \in (Len(objs) + 1)..Len(objs') :
              /\ objs'[n].from \in 1..Len(objs)
              /\ objs'[n].model = objs[objs'[n].from].model ]_vars

\* two successors of one receiver hold different queries, one of them made by
\* custom_query or sa_filter, and the receiver still holds its own
C12_Witness ==
    \E i, j \in 1..Len(objs) :
        /\ i < j
        /\ objs[i].from = objs[j].from
        /\ objs[i].value # objs[j].value
        /\ objs[j].op \in {"custom_query", "sa_filter"}
        /\ objs[i].op \in {"filter", "order_by", "select_related"}
        /\ objs[i].value # QueryProperty(objs[objs[i].from])
        /\ objs[j].value # QueryProperty(objs[objs[i].from])

\* the rows of the table a get() ran on that satisfy the criteria of the query
\* it was called on and the criteria its filters ask for
Wanted ==
    {i \in 1..Len(got.table) :
        /\ Satisfies(got.table[i], got.base)
        /\ \A k \in 1..Len(got.atoms) : got.atoms[k] \in got.table[i]}

\* C13: get() returns the row when exactly one row matches, raises the
\* DoesNotExist of the entity of the query when none does and
\* MultipleObjectsReturned when two or more do; get(**filters) ends as get()
\* on the query filter(**filters) returns.
C13_GetByMatchCount ==
    got.op = "get" =>
        /\ Cardinality(Wanted) = 1 =>
              got.outcome.kind = "row" /\ got.outcome.row \in Wanted
        /\ Wanted = {} =>
              got.outcome.kind = "DoesNotExist" /\ got.outcome.model = sq.model
        /\ Cardinality(Wanted) >= 2 => got.outcome.kind = "MultipleObjectsReturned"
        /\ LET filtered ==
                   smart_query(got.base,
                               [i \in 1..Len(got.atoms) |-> KeyString(AtomKey(got.atoms[i]))],
                               <<>>, <<>>, nextAlias)
           IN filtered.err.kind = "none"
              /\ got.outcome = get(sq.model, filtered.query, got.table)

\* get(**filters) on a query that holds a criterion already found the one row
\* of two that matches
C13_Witness ==
    /\ got.op = "get"
    /\ got.atoms # <<>>
    /\ got.base.preds # <<>>
    /\ Len(got.table) = MaxMatch
    /\ got.outcome.kind = "row"
    /\ \E i \in 1..Len(got.table) : i \notin Wanted

(***************************************************************************)
(* Properties of chained filters and of the resolution of keys.            *)
(***************************************************************************)
\* the predicates of a query, each on the relation path its alias was joined
\* for and on the how-manieth join of that path (the root entity: <<>>, 0)
PredsByPath(query) ==
    {LET p == query.preds[i]
         js == {j \in 1..Len(query.joins) : query.joins[j].alias = p.on}
         path == IF js = {} THEN <<>> ELSE query.joins[SetMin(js)].path
         nth == Cardinality({j \in 1..Len(query.joins) :
                                /\ query.joins[j].path = path
                                /\ query.joins[j].alias <= p.on})
     IN [path |-> path, nth |-> nth, attr |-> p.attr, op |-> p.op] :
     i \in 1..Len(query.preds)}

\* C14: a query built by filter calls alone holds the same set of predicates
\* as one filter call given all their keys.
C14_ChainedFiltersCompose ==
    ( /\ sq.built = {"filter"}
      /\ \A i, j \in 1..Len(sq.fkeys) : sq.fkeys[i] = sq.fkeys[j] => i = j ) =>
        LET one == smart_query(EmptyQuery,
                               [i \in 1..Len(sq.fkeys) |-> KeyString(sq.fkeys[i])],
                               <<>>, <<>>, 1)
        IN one.err.kind = "none" /\ PredsByPath(sq.query) = PredsByPath(one.query)

\* C15: a sort key that goes through relations orders descending exactly when
\* the whole key as given starts with the descending marker; a marker anywhere
\* else in the key, directly before the leaf name for one, never does.
C15_DescendingOnlyByLeadingMarker ==
    (Returned /\ call.op = "order_by") =>
        \A i \in 1..Len(call.sorts) :
            call.sorts[i].rels # <<>> =>
                (CallOrders[i].dir = "desc"
                    <=> StartsWith(SortString(call.sorts[i]), DESC_PREFIX))

\* the entity a relation path ends at ("": the path names no such relations)
RECURSIVE ClassAt(_, _)
ClassAt(cls, rels) ==
    IF rels = <<>> THEN cls
    ELSE IF rels[1] \notin Relations(cls) THEN ""
    ELSE ClassAt(RelationTarget(cls, rels[1]), Tail(rels))

\* the key the entity at the end of the path is asked to order by, and the
\* attribute it names
EntityKey(k) == IF k.rels = <<>> THEN SortString(k)
                ELSE (IF k.desc THEN DESC_PREFIX ELSE <<>>) \o k.leaf

EntityAttr(k) == IF StartsWith(EntityKey(k), DESC_PREFIX) THEN Tail(EntityKey(k))
                 ELSE EntityKey(k)

\* C16: a sort key "-x" orders descending by x and "x" ascending, for x a
\* sortable attribute (a column or a hybrid property) of the entity asked;
\* several keys order in the sequence given; the first key whose attribute is
\* not sortable makes the call fail with the error that names the attribute.
C16_SortKeysInOrder ==
    ( /\ call.op = "order_by"
      /\ \A i \in 1..Len(call.sorts) : ClassAt(RootCls, call.sorts[i].rels) # "" ) =>
        LET bad == {i \in 1..Len(call.sorts) :
                       EntityAttr(call.sorts[i]) \notin
                           Columns(ClassAt(RootCls, call.sorts[i].rels))
                           \cup HybridProperties(ClassAt(RootCls, call.sorts[i].rels))}
        IN IF bad = {}
           THEN /\ call.err.kind = "none"
                /\ Len(CallOrders) = Len(call.sorts)
                /\ \A i \in 1..Len(call.sorts) :
                      /\ CallOrders[i].attr = EntityAttr(call.sorts[i])
                      /\ CallOrders[i].dir =
                            (IF StartsWith(EntityKey(call.sorts[i]), DESC_PREFIX)
                             THEN "desc" ELSE "asc")
                      /\ IF call.sorts[i].rels = <<>> THEN CallOrders[i].on = 0
                         ELSE CallOrders[i].on \in AliasesOf(call.sorts[i].rels)
           ELSE /\ call.err.kind = "KeyError"
                /\ call.err.cause = "cant order"
                /\ call.err.what = EntityAttr(call.sorts[SetMin(bad)])
                /\ call.result = call.base

\* two keys of the root entity, the first descending and the second
\* ascending, were applied in that order
C16_Witness ==
    /\ Returned
    /\ call.op = "order_by"
    /\ Len(call.sorts) = 2
    /\ \A i \in 1..2 : call.sorts[i].rels = <<>>
    /\ CallOrders[1].dir = "desc"
    /\ CallOrders[2].dir = "asc"
    /\ CallOrders[1].attr # CallOrders[2].attr

\* one filter key with a valid relation path and no unknown operator suffix
\* fails with the invalid-attribute error exactly when its leaf attribute is
\* not in the given set of the entity the path ends at; a leaf in the set given
\* without a suffix yields a predicate on it
LeafRule(Accepted(_)) ==
    ( /\ call.op = "filter"
      /\ Len(call.filters) = 1
      /\ ClassAt(RootCls, call.filters[1].rels) # ""
      /\ call.filters[1].suffix # OpBad ) =>
        LET k == call.filters[1]
            inset == k.attr \in Accepted(ClassAt(RootCls, k.rels))
        IN /\ (call.err.kind = "KeyError" /\ call.err.cause = "incorrect attribute")
                  <=> ~inset
           /\ (inset /\ k.suffix = <<>>) =>
                  /\ call.err.kind = "none"
                  /\ Len(CallPreds) = 1
                  /\ CallPreds[1].attr = k.attr
           /\ ~inset => call.err.what = k.attr /\ call.result = call.base

AllRelationsSet(cls) ==
    Columns(cls) \cup HybridProperties(cls) \cup Relations(cls) \cup HybridMethods(cls)

SettableRelationsSet(cls) ==
    Columns(cls) \cup HybridProperties(cls) \cup SettableRelations(cls) \cup HybridMethods(cls)

C18_UnknownOperatorNamed ==
    ( /\ call.op = "filter"
      /\ Len(call.filters) = 1
      /\ ClassAt(RootCls, call.filters[1].rels) # ""
      /\ call.filters[1].suffix \notin {<<>>, OpGt, OpExact} ) =>
        /\ call.err.kind = "KeyError"
        /\ call.err.cause = "incorrect operator"
        /\ call.err.what = call.filters[1].suffix
        /\ call.err.key = KeyString(call.filters[1])
        /\ call.result = call.base

\* a key reached through two relation segments failed on its suffix
C18_Witness ==
    /\ call.op = "filter"
    /\ Len(call.filters) = 1
    /\ Len(call.filters[1].rels) = 2
    /\ call.filters[1].suffix = OpBad
    /\ call.filters[1].attr \in Columns(ClassAt(RootCls, call.filters[1].rels))
    /\ call.err.cause = "incorrect operator"
    /\ call.err.what = OpBad

\* the one key of the last call, its relation path and the key as given
OneKey == IF call.op = "filter" THEN call.filters[1] ELSE call.sorts[1]

OneKeyGiven == IF call.op = "filter" THEN KeyString(OneKey) ELSE SortString(OneKey)

\* the place of the first segment of the path that names no relationship
FirstBad(rels) ==
    SetMin({n \in 1..Len(rels) : ClassAt(RootCls, SubSeq(rels, 1, n)) = ""})

\* a call with one key whose path has a segment that names no relationship
\* fails with the invalid-path error, which names the offending segment and
\* the given text
InvalidPathNames(text) ==
    ( /\ call.op \in {"filter", "order_by"}
      /\ Len(call.filters) + Len(call.sorts) = 1
      /\ ClassAt(RootCls, OneKey.rels) = "" ) =>
        /\ call.err.kind = "KeyError"
        /\ call.err.msg = "incorrect path"
        /\ call.err.what = OneKey.rels[FirstBad(OneKey.rels)]
        /\ call.err.key = text
        /\ call.result = call.base

\* C19 (as amended): a filter or sort key with a segment that names no
\* relationship of the entity reached so far fails with the invalid-path
\* error, which names the offending segment and the path up to and including
\* that segment.
C19_InvalidSegmentNamed ==
    InvalidPathNames(JoinRels(SubSeq(OneKey.rels, 1, FirstBad(OneKey.rels))))

\* C19 (as stated): the error names the offending segment and the full
\* original key.
C19_AsStated == InvalidPathNames(OneKeyGiven)

\* a key failed on its second segment, and the error names the path up to it
C19_Witness ==
    /\ call.op \in {"filter", "order_by"}
    /\ Len(call.filters) + Len(call.sorts) = 1
    /\ Len(OneKey.rels) = 2
    /\ ClassAt(RootCls, OneKey.rels) = ""
    /\ call.err.msg = "incorrect path"
    /\ call.err.what = OneKey.rels[2]
    /\ call.err.key = JoinRels(OneKey.rels)

\* C20: a filter key whose leaf names a hybrid method has the method called
\* with the value and the alias of the entity the path ends at, and that is the
\* one predicate added; the same name with an operator suffix fails with the
\* invalid-path error and adds no predicate.
C20_HybridMethodLeaf ==
    ( /\ call.op = "filter"
      /\ Len(call.filters) = 1
      /\ ClassAt(RootCls, call.filters[1].rels) # ""
      /\ call.filters[1].attr \in HybridMethods(ClassAt(RootCls, call.filters[1].rels)) ) =>
        IF call.filters[1].suffix = <<>>
        THEN /\ call.err.kind = "none"
             /\ Len(CallPreds) = 1
             /\ CallPreds[1].attr = call.filters[1].attr
             /\ CallPreds[1].op = <<"m">>
             /\ IF call.filters[1].rels = <<>> THEN CallPreds[1].on = 0
                ELSE CallPreds[1].on \in AliasesOf(call.filters[1].rels)
        ELSE /\ call.err.kind = "KeyError"
             /\ call.err.msg \in {"incorrect path", "incorrect filter path"}
             /\ call.result = call.base

(***************************************************************************)
(* Properties of the eager-load schema and of the alias registry.          *)
(***************************************************************************)
\* the keys of the last call go through declared relations only
KeysResolve ==
    /\ \A i \in 1..Len(call.filters) : ClassAt(RootCls, call.filters[i].rels) # ""
    /\ \A i \in 1..Len(call.sorts) : ClassAt(RootCls, call.sorts[i].rels) # ""

\* C21: a call whose eager-load schema gives a path a strategy tag other than
\* joined or subquery fails with the invalid-eager-strategy error, whether or
\* not a filter or sort key of the call goes through that path.
C21_BadStrategyAlwaysFails ==
    ( /\ call.op = "smart_query"
      /\ KeysResolve
      /\ \E i \in 1..Len(flatten_schema(call.schema)) :
            flatten_schema(call.schema)[i].method \notin {JOINED, SUBQUERY} ) =>
        /\ call.err.kind = "ValueError"
        /\ call.err.msg = "bad join method"

\* the loader options the last call added
CallOpts == SubSeq(call.result.opts, Len(call.base.opts) + 1, Len(call.result.opts))

\* how many of them, of the given kinds, are for the dotted path
OptsFor(dotted, kinds) ==
    Cardinality({i \in 1..Len(CallOpts) :
                    CallOpts[i].path = dotted /\ CallOpts[i].kind \in kinds})

\* the dotted path has an alias in the registry of the last call
Registered(dotted) ==
    \E i \in 1..Len(call.aliases) :
        StrReplace(call.aliases[i].path, RELATION_SPLITTER, <<".">>) = dotted

\* C22: in a smart_query call that returns, every path of the flattened
\* schema is handled exactly once: a registered path with the joined strategy
\* is attached to its join and not emitted on its own; a path with the subquery
\* strategy, or with no alias, is emitted as exactly one directive of its
\* strategy; no directive is emitted for a path the schema does not hold.
C22_EagerPathsHandledOnce ==
    (Returned /\ call.op = "smart_query") =>
        LET flat == flatten_schema(call.schema)
        IN /\ \A i \in 1..Len(flat) :
                 LET merged == OptsFor(flat[i].path, {"contains_eager"})
                     emitted == OptsFor(flat[i].path, {"joinedload", "subqueryload"})
                 IN /\ merged + emitted = 1
                    /\ (Registered(flat[i].path) /\ flat[i].method = JOINED) =>
                           merged = 1
                    /\ (flat[i].method = SUBQUERY \/ ~Registered(flat[i].path)) =>
                           OptsFor(flat[i].path,
                                   {IF flat[i].method = JOINED THEN "joinedload"
                                    ELSE "subqueryload"}) = 1
           /\ \A j \in 1..Len(CallOpts) :
                 CallOpts[j].kind # "contains_eager" =>
                     \E i \in 1..Len(flat) : flat[i].path = CallOpts[j].path

\* a schema of two paths, both gone through by a key: the joined one was
\* attached to its join, the subquery one emitted on its own
C22_Witness ==
    /\ Returned
    /\ call.op = "smart_query"
    /\ Len(flatten_schema(call.schema)) = 2
    /\ \A i \in 1..2 : Registered(flatten_schema(call.schema)[i].path)
    /\ \E i \in 1..2 : OptsFor(flatten_schema(call.schema)[i].path, {"contains_eager"}) = 1
    /\ \E i \in 1..2 : OptsFor(flatten_schema(call.schema)[i].path, {"subqueryload"}) = 1

(***************************************************************************)
(* Properties of the scope when the store can fail, and of atomic.         *)
(***************************************************************************)
\* C23: every step that leaves a DB scope, whether the block returned or
\* raised and whether the commit or rollback at the exit went through or
\* failed, puts the context's binding back to what it was before the scope was
\* entered.
C23_ExitRestoresBinding ==
    [][ \A c \in Ctx :
          ( /\ stack[c] # <<>>
            /\ Top(c).kind = "db"
            /\ stack'[c] = SubSeq(stack[c], 1, Len(stack[c]) - 1) ) =>
              dbstate'[c] = Top(c).token ]_vars

\* C24: for a function run under atomic inside a DB scope: the savepoint it
\* opens holds the changes made before the call; no save(), delete(), commit()
\* or statement made during the call changes the store or closes the
\* savepoint; when the function raises, the session is back at the savepoint,
\* with the changes made before the call still uncommitted in the transaction,
\* and the exception goes on propagating; when it returns, the savepoint is
\* released, the changes of the call stay in the outer transaction and the
\* store is as it was.
C24_AtomicIsASavepoint ==
    [][\A c \in Ctx :
         /\ (last'.op = "begin_nested" /\ last'.ctx = c /\ ~last'.raised) =>
                LET before == SessionsAfter(c)[last'.sess]
                    after == sessions'[last'.sess]
                IN /\ after.sps = Append(before.sps, Overlay(before.txn, before.pend))
                   /\ after.txn = Overlay(before.txn, before.pend)
                   /\ store' = store
         /\ (last'.op \in {"commit", "save", "delete", "execute"}
                /\ last'.ctx = c /\ last'.nested) =>
                /\ store' = store
                /\ sessions'[last'.sess].sps = sessions[last'.sess].sps
                /\ sessions'[last'.sess].durable = sessions[last'.sess].durable
         /\ (last'.op = "end_nested" /\ last'.ctx = c) =>
                LET before == sessions[last'.sess]
                    after == sessions'[last'.sess]
                IN /\ store' = store
                   /\ after.sps = SubSeq(before.sps, 1, Len(before.sps) - 1)
                   /\ after.pend = NoChange
                   /\ after.durable = before.durable
                   /\ exc'[c] = exc[c]
                   /\ last'.raised = exc[c]
                   /\ last'.raised => after.txn = before.sps[Len(before.sps)]
                   /\ ~last'.raised => after.txn = Overlay(before.txn, before.pend)]_vars

\* the function raised after it had changed a row: the session is back at a
\* savepoint that holds a change made before the call, nothing is committed
C24_Witness ==
    /\ last.op = "end_nested"
    /\ last.raised
    /\ exc[last.ctx]
    /\ sessions[last.sess].txn # NoChange
    /\ sessions[last.sess].sps = <<>>
    /\ store = [r \in Rows |-> FALSE]

(***************************************************************************)
(* Properties of key parsing.                                              *)
(***************************************************************************)
\* C25: taking a key apart gives back what it was built from: the relation
\* segments the registry takes are the relations of the key, the path the
\* compiler looks up is the path the registry holds for them, and the
\* attribute and the operator are the leaf and the operator of the key.
C25_ParsingInvertsGrammar ==
    parsed.key # <<>> =>
        /\ parsed.segments = parsed.rels
        /\ parsed.path = JoinRels(parsed.rels)
        /\ parsed.path = JoinRels(parsed.segments)
        /\ parsed.attr = parsed.leaf
        /\ parsed.suffix = parsed.op

(***************************************************************************)
(* Properties of the alias registry, of _flatten_schema and of the joins.  *)
(***************************************************************************)
\* the path one relation segment shorter
ParentPath(path) == RSplit1(path, RELATION_SPLITTER)[1]

\* in the alias registry of the last call every path of two or more segments
\* comes after its parent path
RegistryParentFirst ==
    \A i \in 1..Len(call.aliases) :
        StrContains(call.aliases[i].path, RELATION_SPLITTER) =>
            \E p \in 1..(i - 1) : call.aliases[p].path = ParentPath(call.aliases[i].path)

\* C26: in the alias registry one smart_query call builds, the parent of every
\* path of two or more segments is registered before it, and the outer joins
\* the call issues come parent before child: every join of such a path has the
\* join of its parent path before it.
C26_ParentBeforeChild ==
    Returned =>
        /\ RegistryParentFirst
        /\ \A j \in 1..Len(CallJoins) :
              StrContains(CallJoins[j].path, RELATION_SPLITTER) =>
                  \E p \in 1..(j - 1) : CallJoins[p].path = ParentPath(CallJoins[j].path)

\* the nodes of an eager-load tree, each with its dotted path from the root
\* and the strategy its value gives it
RECURSIVE Nodes(_, _)
Nodes(schema, parent) ==
    UNION { LET item == schema[i]
                here == IF parent = <<>> THEN item.path ELSE parent \o <<".">> \o item.path
            IN {[path |-> here,
                 method |-> IF item.kind = "tree" THEN JOINED ELSE item.tag]}
                   \cup Nodes(item.tree, here)
            : i \in 1..Len(schema) }

DottedParent(path) == IF StrContains(path, <<".">>) THEN RSplit1(path, <<".">>)[1] ELSE <<>>

\* C27: _flatten_schema gives the flat map one entry per node of the tree,
\* keyed by the node's dotted path and holding the node's strategy (the bare
\* tag, joined for a nested dict, the pair's strategy for a pair); no entry is
\* not a node, and a parent's entry comes before its children's.
C27_FlattenIsTheTree ==
    flattened.called =>
        LET result == flattened.result
            nodes == Nodes(flattened.schema, <<>>)
        IN /\ {result[i] : i \in 1..Len(result)} = nodes
           /\ Len(result) = Cardinality(nodes)
           /\ \A i, j \in 1..Len(result) : result[i].path = result[j].path => i = j
           /\ \A i \in 1..Len(result) :
                 DottedParent(result[i].path) # <<>> =>
                    \E j \in 1..(i - 1) : result[j].path = DottedParent(result[i].path)

\* a pair with two children and a nested dict with one are flattened
C27_Witness ==
    /\ flattened.called
    /\ flattened.schema = << Pair(Rb, SUBQUERY, << Tag(Ra, JOINED), Tag(Rb, SUBQUERY) >>),
                        Tree(Ra, << Tag(Rb, SUBQUERY) >>) >>
    /\ Len(flattened.result) = 5
    /\ flattened.result[1] = [path |-> Rb, method |-> SUBQUERY]
    /\ flattened.result[4] = [path |-> Ra, method |-> JOINED]

\* C29: in the query smart_query returns, the alias of every filter predicate
\* and of every ordering expression that is not on the root class has been
\* outer-joined into the query, whatever the filters, the sort keys and the
\* eager-load schema are.
C29_EveryReferencedAliasJoined ==
    (Returned /\ call.op = "smart_query") =>
        /\ \A i \in 1..Len(CallPreds) :
              CallPreds[i].on # 0 =>
                  \E j \in 1..Len(CallJoins) : CallJoins[j].alias = CallPreds[i].on
        /\ \A i \in 1..Len(CallOrders) :
              CallOrders[i].on # 0 =>
                  \E j \in 1..Len(CallJoins) : CallJoins[j].alias = CallOrders[i].on

(***************************************************************************)
(* Properties of Apps.populate.                                            *)
(***************************************************************************)
\* C28: RuntimeError("populate() isn't reentrant") is raised only in a call
\* made by a thread that has another call of populate() still open; a call
\* of a thread with no other open call never raises it, and the app configs
\* are loaded at most once.
C28_RaisedOnlyWhenReentrant ==
    /\ \A t \in Threads : outcome[t].raised => outcome[t].reentrant
    /\ registry.loads <= 1

(***************************************************************************)
(* Properties of the engines cache.                                        *)
(***************************************************************************)
\* C30: the engine cached under "default" stays the one configured at
\* start-up whatever custom parameters sessions were created with, and every
\* session of a scope opened without custom parameters is bound to it.
C30_DefaultEngineUnchanged ==
    /\ engines["default"] = DefaultEngine
    /\ \A c \in Ctx :
          (scopes[c].open /\ scopes[c].params = <<>> /\ scopes[c].bind # 0) =>
              scopes[c].bind = DefaultEngine
====
